---- MODULE Spec2Model ----
(***************************************************************************)
(* Signalling server of ConfrenceRTC: rooms, admission, grace timers.      *)
(* Two of the repository's server variants are modelled side by side:      *)
(*   "plain" - src/server.js (synchronous join-room, clearTimeout)         *)
(*   "redis" - src/unnamed/part_004 (join-room awaits the reservation      *)
(*             store, safeJoin, muted set)                                 *)
(* The variant is fixed in Init and never changes.                         *)
(***************************************************************************)
EXTENDS Integers, Sequences, FiniteSets, TLC

(* ---------- bounds ------------------------------------------------- *)
NumSockets    == 2     \* connections that may ever be established
NumRooms      == 1     \* room ids a client may name
MaxRequests   == 2     \* join-room and approve-join requests in one run
\* wider runs: a third connection, a second room id, one more request
WideSockets   == 3
WideRooms     == 2
WideRequests  == 3
\* runs with the media engine
MediaSockets    == 3   \* connections
MediaRooms      == 1   \* room ids
MediaRequests   == 3   \* join-room and approve-join requests
MaxTransports   == 1   \* createTransport requests
MaxProducers    == 1   \* produce requests
\* runs with chat moderation
ChatRequests    == 1   \* join-room and approve-join requests
MaxChat         == 2   \* chat-toggle and chat-send requests
\* runs with a second server instance on the same reservation store
RemoteRequests  == 1   \* join-room requests handled by the other instance

Variants  == {"plain", "redis"}
\* texts a client may put in the shared editor
Texts == {"a", "b"}

MediaTags == {"camera", "screen"}
NoRoomId  == 0         \* socket.roomId is null / undefined

\* size and request budgets of a run
LimAdmission == [ sockets |-> NumSockets, rooms |-> NumRooms, admit |-> MaxRequests,
                  transport |-> 0, produce |-> 0, chat |-> 0, remote |-> 0, alias |-> FALSE ]
LimWide      == [ sockets |-> WideSockets, rooms |-> WideRooms, admit |-> WideRequests,
                  transport |-> 0, produce |-> 0, chat |-> 0, remote |-> 0, alias |-> FALSE ]
LimMedia     == [ sockets |-> MediaSockets, rooms |-> MediaRooms, admit |-> MediaRequests,
                  transport |-> MaxTransports, produce |-> MaxProducers,
                  chat |-> 0, remote |-> 0, alias |-> FALSE ]
LimStage     == [ sockets |-> NumSockets, rooms |-> NumRooms, admit |-> MaxRequests,
                  transport |-> MaxTransports, produce |-> MaxProducers,
                  chat |-> 0, remote |-> 0, alias |-> FALSE ]
LimChat      == [ sockets |-> NumSockets, rooms |-> NumRooms, admit |-> ChatRequests,
                  transport |-> 0, produce |-> 0, chat |-> MaxChat, remote |-> 0,
                  alias |-> FALSE ]
\* room ids chosen by clients that are the ids of connections: room id k is the
\* string socket.io gave to connection k
LimAlias     == [ sockets |-> NumSockets, rooms |-> NumRooms, admit |-> MaxRequests,
                  transport |-> 0, produce |-> 0, chat |-> 0, remote |-> 0, alias |-> TRUE ]
LimCluster   == [ sockets |-> NumSockets, rooms |-> NumRooms, admit |-> MaxRequests,
                  transport |-> 0, produce |-> 0, chat |-> 0, remote |-> RemoteRequests,
                  alias |-> FALSE ]

VARIABLES
  lim,         \* the run's size, request budgets and id namespace (fixed in Init)
  variant,     \* which server file runs
  sock,        \* socket id -> [st, roomId, joined, self]: socket.io connection,
               \* socket.roomId, the socket.io rooms it joined, and whether it is
               \* in the socket.io room named by its own id
  peers,       \* Map socket id -> [transports, producers]
  rooms,       \* Map roomId -> [ownerId, participants, waiting, producers, muted]
  timers,      \* Map roomId -> timeout handle
  timeouts,    \* the runtime's timeouts, by handle: [roomId, cleared, fired, seen, handled]
  redisStore,  \* reservation store: key -> value
  redisQ,      \* commands sent to the store and not yet answered, in order
  remote,      \* a second server instance: its rooms and its store connection
  inflight,    \* socket id -> media-engine call awaited by its handler
  engine,      \* handles the media engine has created: [kind, owner, id, on, open]
  codeStore,   \* Map roomId -> text of the shared editor
  nextProducer,\* producers created by the media engine so far
  crashed,     \* an exception escaped a handler
  ownerReplies,\* roomId -> sockets answered isOwner:true since the id was last free
  closedEmits, \* roomId -> room-closed emissions since the room record was created
  used,        \* client requests received so far, by kind
  out          \* events emitted and replies sent by the last step

vars == << lim, variant, sock, peers, rooms, timers, timeouts, redisStore, redisQ,
           remote, inflight, engine, codeStore, nextProducer, crashed, ownerReplies, closedEmits, used, out >>

Sockets == 1..lim.sockets     \* socket ids
RoomIds == 1..lim.rooms       \* room ids

(* ---------- helpers ------------------------------------------------ *)
\* Array.prototype.filter(id => id !== x)
Without(seq, x) == SelectSeq(seq, LAMBDA e : e # x)

\* Array.prototype.filter(p => p.socketId !== x)
WithoutOwner(seq, x) == SelectSeq(seq, LAMBDA p : p.socketId # x)

Range(seq) == { seq[i] : i \in 1..Len(seq) }

\* Map.prototype.delete
MapDelete(m, k) == [ x \in (DOMAIN m) \ {k} |-> m[x] ]

\* Map.prototype.set
MapSet(m, k, v) == [ x \in (DOMAIN m) \cup {k} |-> IF x = k THEN v ELSE m[x] ]

EmptyMap == [ x \in {} |-> 0 ]

IsOpen(s) == sock[s].st = "open"

\* no media-engine call awaited
NoCall == [ call |-> "none", tag |-> "none", tid |-> 0 ]

\* the room record built by the create branch of join-room
NewRoom(s) == [ ownerId |-> s, participants |-> << s >>, waiting |-> << >>,
                producers |-> << >>, muted |-> {} ]

InitWith(l) ==
  /\ lim = l
  /\ variant \in Variants
  /\ sock = [ s \in 1..l.sockets |-> [ st |-> "new", roomId |-> NoRoomId, joined |-> {},
                                    self |-> TRUE ] ]
  /\ peers = EmptyMap
  /\ rooms = EmptyMap
  /\ timers = EmptyMap
  /\ timeouts = << >>
  /\ redisStore = EmptyMap
  /\ redisQ = << >>
  /\ remote = [ rooms |-> {}, q |-> << >> ]
  /\ inflight = [ s \in 1..l.sockets |-> NoCall ]
  /\ engine = {}
  /\ codeStore = EmptyMap
  /\ nextProducer = 0
  /\ crashed = FALSE
  /\ ownerReplies = [ r \in 1..l.rooms |-> {} ]
  /\ closedEmits = [ r \in 1..l.rooms |-> 0 ]
  /\ used = [ admit |-> 0, transport |-> 0, produce |-> 0, chat |-> 0, remote |-> 0 ]
  /\ out = {}

\* io.on('connection'): ids are handed out once, in order
Connect(s) ==
  /\ UNCHANGED used
  /\ ~crashed
  /\ sock[s].st = "new"
  /\ \A t \in Sockets : t < s => sock[t].st # "new"
  /\ sock' = [ sock EXCEPT ![s].st = "open" ]
  /\ peers' = MapSet(peers, s, [ transports |-> 0, producers |-> 0 ])
  /\ out' = {}
  /\ UNCHANGED << lim, variant, engine, codeStore, remote, rooms, timers, timeouts, redisStore, redisQ, inflight,
                  nextProducer, crashed, ownerReplies, closedEmits >>

(* ---------- runtime timeouts ---------------------------------------- *)
\* a timeout that can still fire
Pending(t) == ~t.cleared /\ ~t.fired

\* setTimeout(cb, 30_000) for the callback closing over roomId
SetTimeout(ts, r) ==
  Append(ts, [ roomId |-> r, cleared |-> FALSE, fired |-> FALSE,
               seen |-> FALSE, handled |-> FALSE ])

\* a cancellation that is recorded whether or not the callback already ran
ClearTimeoutLate(ts, h) ==
  [ i \in DOMAIN ts |-> IF i = h THEN [ ts[i] EXCEPT !.cleared = TRUE ] ELSE ts[i] ]

\* clearTimeout(h): cancels a pending timeout, no effect on one that has run
ClearTimeout(ts, h) ==
  [ i \in DOMAIN ts |->
      IF i = h /\ Pending(ts[i]) THEN [ ts[i] EXCEPT !.cleared = TRUE ] ELSE ts[i] ]

\* bookkeeping: a join-room naming r arrived / was answered while h was pending
MarkSeen(ts, r) ==
  [ h \in DOMAIN ts |-> IF ts[h].roomId = r /\ Pending(ts[h])
                          THEN [ ts[h] EXCEPT !.seen = TRUE ] ELSE ts[h] ]
MarkHandled(ts, r) ==
  [ h \in DOMAIN ts |-> IF ts[h].roomId = r /\ Pending(ts[h])
                          THEN [ ts[h] EXCEPT !.handled = TRUE ] ELSE ts[h] ]

(* ---------- events --------------------------------------------------- *)
\* an emitted event or a reply: name, receiving connection (0: the whole room),
\* room id, the connection it is about, the producer list it carries, how
\* many times the step emitted it, and the connections it is delivered to
EvTimes(name, to, room, peer, list, n) ==
  [ ev |-> name, to |-> to, room |-> room, peer |-> peer, list |-> list, n |-> n,
    rcpt |-> IF to = 0 THEN {} ELSE {to} ]

Ev(name, to, room, peer, list) == EvTimes(name, to, room, peer, list, 1)

\* io.to(roomId): the connected sockets in the socket.io room roomId.  In
\* part_004 safeJoin is the only join and leaves the room joined before, and
\* a closing socket leaves every room before its disconnect handler runs.
\* When r is also the id of a connection, that connection is in the room too
\* unless it left it.
RoomSockets(sk, r) ==
  { s \in DOMAIN sk : sk[s].st = "open" /\ r \in sk[s].joined }
  \cup { s \in DOMAIN sk : lim.alias /\ s = r /\ sk[s].st = "open" /\ sk[s].self }

\* io.to(ids): every connected socket is in the socket.io room named by its id
\* until it leaves it, and so is every socket that joined a room with that name
IdSockets(sk, ids) ==
  { s \in ids : sk[s].st = "open" /\ sk[s].self }
  \cup { s \in DOMAIN sk : lim.alias /\ sk[s].st = "open" /\ sk[s].joined \cap ids # {} }

\* an event emitted to a set of socket.io rooms
EvRoom(name, rcpt, room, peer) ==
  [ EvTimes(name, 0, room, peer, << >>, 1) EXCEPT !.rcpt = rcpt ]

\* io.to(id).emit(...): an event addressed to the connection with that id
EvTo(name, sk, to, room, peer, list, n) ==
  [ EvTimes(name, to, room, peer, list, n) EXCEPT !.rcpt = IdSockets(sk, {to}) ]

(* ---------- join-room, src/server.js -------------------------------- *)
\* socket.roomId = roomId; socket.join(roomId): nothing is left
PlainJoin(sk, s, r) == [ sk EXCEPT ![s].roomId = r, ![s].joined = @ \cup { r } ]

JoinRoomPlain(s, r) ==
  /\ used.admit < lim.admit
  /\ used' = [ used EXCEPT !.admit = @ + 1 ]
  /\ ~crashed
  /\ variant = "plain"
  /\ IsOpen(s)
  /\ LET ts1 == MarkHandled(MarkSeen(timeouts, r), r)
         ts2 == IF r \in DOMAIN timers THEN ClearTimeout(ts1, timers[r]) ELSE ts1
     IN
     /\ timeouts' = ts2
     /\ IF r \notin DOMAIN rooms
          THEN /\ rooms' = MapSet(rooms, r, NewRoom(s))
               /\ sock' = PlainJoin(sock, s, r)
               /\ ownerReplies' = [ ownerReplies EXCEPT ![r] = @ \cup {s} ]
               /\ closedEmits' = [ closedEmits EXCEPT ![r] = 0 ]
               /\ out' = { Ev("isOwner", s, r, s, << >>) }
          ELSE /\ rooms' = [ rooms EXCEPT ![r].waiting = Append(@, s) ]
               /\ out' = { EvTo("join-request", sock, rooms[r].ownerId, r, s, << >>, 1),
                           Ev("waitForApproval", s, r, s, << >>) }
               /\ UNCHANGED << sock, ownerReplies, closedEmits >>
  /\ UNCHANGED << lim, variant, engine, codeStore, remote, peers, timers, redisStore, redisQ, inflight,
                  nextProducer, crashed >>

(* ---------- join-room, src/unnamed/part_004 -------------------------- *)
Cmd(op, key, by) == [ op |-> op, key |-> key, by |-> by ]

HasCmdBy(s) == \E i \in 1..Len(redisQ) : redisQ[i].by = s

\* the handler runs up to `await redis.exists(...)`
JoinRoomStart(s, r) ==
  /\ used.admit < lim.admit
  /\ used' = [ used EXCEPT !.admit = @ + 1 ]
  /\ ~crashed
  /\ variant = "redis"
  /\ IsOpen(s)
  /\ ~HasCmdBy(s)
  /\ redisQ' = Append(redisQ, Cmd("exists", r, s))
  /\ timeouts' = MarkSeen(timeouts, r)
  /\ out' = {}
  /\ UNCHANGED << lim, variant, engine, codeStore, remote, sock, peers, rooms, timers, redisStore, inflight,
                  nextProducer, crashed, ownerReplies, closedEmits >>

\* safeJoin(sock, roomId): leaves the old socket.io room, joins, remembers
SafeJoin(sk, s, r) ==
  [ sk EXCEPT ![s].roomId = r,
              ![s].joined = ( @ \ { sk[s].roomId } ) \cup { r },
              ![s].self = IF ~lim.alias THEN @
                          ELSE IF r = s THEN TRUE
                          ELSE IF sk[s].roomId = s THEN FALSE
                          ELSE @ ]

\* a uniqueness check that lets every name through
NameTakenNever(r, exists) == FALSE

\* !rooms.has(roomId) && exists
NameTaken(r, exists) == r \notin DOMAIN rooms /\ exists

\* the store answers `exists`; the handler resumes with the answer
JoinRoomExists ==
  /\ UNCHANGED used
  /\ ~crashed
  /\ redisQ # << >>
  /\ redisQ[1].op = "exists"
  /\ LET s == redisQ[1].by
         r == redisQ[1].key
         exists == r \in DOMAIN redisStore
     IN
     IF NameTaken(r, exists)
       THEN /\ redisQ' = Tail(redisQ)
            /\ timeouts' = MarkHandled(timeouts, r)
            /\ out' = { Ev("exists", s, r, s, << >>) }
            /\ UNCHANGED << rooms >>
       ELSE IF r \notin DOMAIN rooms
         THEN /\ redisQ' = Append(Tail(redisQ), Cmd("set", r, s))
              /\ out' = {}
              /\ UNCHANGED << rooms, timeouts >>
         ELSE /\ redisQ' = Tail(redisQ)
              /\ rooms' = [ rooms EXCEPT ![r].waiting = Append(@, s) ]
              /\ timeouts' = MarkHandled(timeouts, r)
              /\ out' = { EvTo("join-request", sock, rooms[r].ownerId, r, s, << >>, 1),
                          Ev("waitForApproval", s, r, s, << >>) }
  /\ UNCHANGED << lim, variant, engine, codeStore, remote, sock, peers, timers, redisStore, inflight,
                  nextProducer, crashed, ownerReplies, closedEmits >>

\* the store executes `set`; the handler resumes and creates the room
JoinRoomSet ==
  /\ UNCHANGED used
  /\ ~crashed
  /\ redisQ # << >>
  /\ redisQ[1].op = "set"
  /\ LET s == redisQ[1].by
         r == redisQ[1].key
     IN
     /\ redisStore' = MapSet(redisStore, r, s)
     /\ redisQ' = Tail(redisQ)
     /\ rooms' = MapSet(rooms, r, NewRoom(s))
     /\ sock' = SafeJoin(sock, s, r)
     /\ timeouts' = MarkHandled(timeouts, r)
     /\ ownerReplies' = [ ownerReplies EXCEPT ![r] = @ \cup {s} ]
     /\ closedEmits' = [ closedEmits EXCEPT ![r] = 0 ]
     /\ out' = { Ev("isOwner", s, r, s, << >>) }
  /\ UNCHANGED << lim, variant, engine, codeStore, remote, peers, timers, inflight, nextProducer, crashed >>

\* the store executes the `del` sent by the timer callback
RedisDel ==
  /\ UNCHANGED used
  /\ redisQ # << >>
  /\ redisQ[1].op = "del"
  /\ redisStore' = MapDelete(redisStore, redisQ[1].key)
  /\ redisQ' = Tail(redisQ)
  /\ out' = {}
  /\ UNCHANGED << lim, variant, engine, codeStore, remote, sock, peers, rooms, timers, timeouts, inflight,
                  nextProducer, crashed, ownerReplies, closedEmits >>

(* ---------- a second instance of part_004 on the same store ---------- *)
\* Only what the other instance shares with this one is kept: the room ids in
\* its own registry and the commands on its own store connection.  The store
\* serves the two connections in any order, each of them in order.

\* join-room at the other instance, up to `await redis.exists(...)`
RemoteJoinStart(r) ==
  /\ used.remote < lim.remote
  /\ used' = [ used EXCEPT !.remote = @ + 1 ]
  /\ variant = "redis"
  /\ remote' = [ remote EXCEPT !.q = Append(@, Cmd("exists", r, 0)) ]
  /\ out' = {}
  /\ UNCHANGED << lim, variant, engine, codeStore, sock, peers, rooms, timers, timeouts, redisStore, redisQ,
                  inflight, nextProducer, crashed, ownerReplies, closedEmits >>

\* the store answers the other instance's `exists`; its handler resumes
RemoteJoinExists ==
  /\ remote.q # << >>
  /\ remote.q[1].op = "exists"
  /\ LET r == remote.q[1].key
         exists == r \in DOMAIN redisStore
     IN
     remote' = IF r \notin remote.rooms /\ ~exists
                 THEN [ remote EXCEPT !.q = Append(Tail(@), Cmd("set", r, 0)) ]
                 ELSE [ remote EXCEPT !.q = Tail(@) ]
  /\ out' = {}
  /\ UNCHANGED << lim, variant, engine, codeStore, sock, peers, rooms, timers, timeouts, redisStore, redisQ,
                  inflight, nextProducer, crashed, ownerReplies, closedEmits, used >>

\* the store executes the other instance's `set`; its handler creates the room
RemoteJoinSet ==
  /\ remote.q # << >>
  /\ remote.q[1].op = "set"
  /\ LET r == remote.q[1].key IN
     /\ redisStore' = MapSet(redisStore, r, 0)
     /\ remote' = [ rooms |-> remote.rooms \cup {r}, q |-> Tail(remote.q) ]
  /\ out' = {}
  /\ UNCHANGED << lim, variant, engine, codeStore, sock, peers, rooms, timers, timeouts, redisQ,
                  inflight, nextProducer, crashed, ownerReplies, closedEmits, used >>

\* the other instance's grace timer runs: rooms.delete, then redis.del is sent
RemoteTimerFire(r) ==
  /\ r \in remote.rooms
  /\ remote' = [ rooms |-> remote.rooms \ {r}, q |-> Append(remote.q, Cmd("del", r, 0)) ]
  /\ out' = {}
  /\ UNCHANGED << lim, variant, engine, codeStore, sock, peers, rooms, timers, timeouts, redisStore, redisQ,
                  inflight, nextProducer, crashed, ownerReplies, closedEmits, used >>

\* the store executes the other instance's `del`
RemoteDel ==
  /\ remote.q # << >>
  /\ remote.q[1].op = "del"
  /\ redisStore' = MapDelete(redisStore, remote.q[1].key)
  /\ remote' = [ remote EXCEPT !.q = Tail(@) ]
  /\ out' = {}
  /\ UNCHANGED << lim, variant, engine, codeStore, sock, peers, rooms, timers, timeouts, redisQ,
                  inflight, nextProducer, crashed, ownerReplies, closedEmits, used >>

(* ---------- approve-join / deny-join --------------------------------- *)
\* what a client is told about a producer record:
\* {producerId: p.producer.id, socketId: p.socketId, mediaTag: ...appData.mediaTag}
ProducerInfo(p) == [ producerId |-> p.id, socketId |-> p.socketId, mediaTag |-> p.mediaTag ]

\* Array.prototype.map(ProducerInfo)
InfoOf(seq) == [ i \in 1..Len(seq) |-> ProducerInfo(seq[i]) ]

\* a directory that does not leave out the target's own producers
ExistingProducersAll(room, t) == InfoOf(room.producers)

\* existingProducers of join-approved
ExistingProducers(room, t) == InfoOf(WithoutOwner(room.producers, t))

ApproveJoin(s, t) ==
  /\ used.admit < lim.admit
  /\ used' = [ used EXCEPT !.admit = @ + 1 ]
  /\ ~crashed
  /\ IsOpen(s)
  /\ sock[t].st # "new"
  /\ LET roomId == sock[s].roomId IN
     IF roomId = NoRoomId
       THEN /\ out' = {}
            /\ UNCHANGED << rooms, sock, crashed >>
       ELSE IF roomId \notin DOMAIN rooms
         THEN \* room is undefined: reading room.waiting throws
              /\ crashed' = TRUE
              /\ out' = {}
              /\ UNCHANGED << rooms, sock >>
         ELSE /\ LET room1 == [ rooms[roomId] EXCEPT
                                  !.waiting = Without(@, t),
                                  !.participants = Append(@, t) ]
                 IN
                 /\ rooms' = [ rooms EXCEPT ![roomId] = room1 ]
                 /\ sock' = IF ~IsOpen(t) THEN sock
                            ELSE IF variant = "plain" THEN PlainJoin(sock, t, roomId)
                            ELSE SafeJoin(sock, t, roomId)
                 /\ out' = IF variant = "plain"
                             THEN \* io.to(targetSocketId).emit
                                  { EvTo("join-approved", sock, t, roomId, t,
                                         ExistingProducers(room1, t), 1) }
                             ELSE IF IsOpen(t)
                               THEN \* target.emit
                                    { Ev("join-approved", t, roomId, t,
                                         ExistingProducers(room1, t)) }
                               ELSE {}
              /\ UNCHANGED crashed
  /\ UNCHANGED << lim, variant, engine, codeStore, remote, peers, timers, timeouts, redisStore, redisQ, inflight,
                  nextProducer, ownerReplies, closedEmits >>

DenyJoin(s, t) ==
  /\ UNCHANGED used
  /\ ~crashed
  /\ IsOpen(s)
  /\ sock[t].st # "new"
  /\ out' = { EvTo("join-denied", sock, t, NoRoomId, t, << >>, 1) }
  /\ UNCHANGED << lim, variant, engine, codeStore, remote, sock, peers, rooms, timers, timeouts, redisStore, redisQ,
                  inflight, nextProducer, crashed, ownerReplies, closedEmits >>

(* ---------- disconnect and the grace timer --------------------------- *)
\* an owner test that never recognises the owner
IsOwnerNever(room, s) == FALSE

IsOwnerAlways(room, s) == TRUE

\* socket.id === room.ownerId
IsOwner(room, s) == s = room.ownerId

Disconnect(s) ==
  /\ UNCHANGED used
  /\ ~crashed
  /\ IsOpen(s)
  /\ sock' = [ sock EXCEPT ![s].st = "closed" ]
  /\ peers' = MapDelete(peers, s)
  /\ LET roomId == sock[s].roomId IN
     IF roomId = NoRoomId \/ roomId \notin DOMAIN rooms
       THEN /\ out' = {}
            /\ UNCHANGED << rooms, timers, timeouts >>
       ELSE IF IsOwner(rooms[roomId], s)
         THEN /\ timeouts' = SetTimeout(timeouts, roomId)
              /\ timers' = MapSet(timers, roomId, Len(timeouts) + 1)
              /\ out' = {}
              /\ UNCHANGED rooms
         ELSE /\ rooms' = [ rooms EXCEPT
                              ![roomId].participants = Without(@, s),
                              ![roomId].producers = WithoutOwner(@, s) ]
              /\ out' = { EvRoom("participant-left",
                                 IF variant = "plain"
                                   THEN IdSockets(sock', Range(rooms'[roomId].participants))
                                   ELSE RoomSockets(sock', roomId),
                                 roomId, s) }
              /\ UNCHANGED << timers, timeouts >>
  /\ UNCHANGED << lim, variant, engine, codeStore, remote, redisStore, redisQ, inflight, nextProducer, crashed,
                  ownerReplies, closedEmits >>

\* the callback given to setTimeout runs; in src/server.js it emits to the
\* participants of the room object captured by the disconnect handler, which is
\* the room in the registry as long as that timeout can still fire
TimerFire(h) ==
  /\ UNCHANGED used
  /\ ~crashed
  /\ h \in DOMAIN timeouts
  /\ Pending(timeouts[h])
  /\ LET r == timeouts[h].roomId IN
     /\ timeouts' = [ i \in DOMAIN timeouts |->
                      IF i = h THEN [ timeouts[i] EXCEPT !.fired = TRUE ] ELSE timeouts[i] ]
     /\ out' = { EvRoom("room-closed",
                        IF variant = "plain"
                          THEN IF r \in DOMAIN rooms
                                 THEN IdSockets(sock, Range(rooms[r].participants))
                                 ELSE {}
                          ELSE RoomSockets(sock, r),
                        r, 0) }
     /\ closedEmits' = [ closedEmits EXCEPT ![r] = @ + 1 ]
     /\ rooms' = MapDelete(rooms, r)
     /\ ownerReplies' = [ ownerReplies EXCEPT ![r] = {} ]
     /\ redisQ' = IF variant = "redis" THEN Append(redisQ, Cmd("del", r, 0))
                                       ELSE redisQ
  /\ UNCHANGED << lim, variant, engine, codeStore, remote, sock, peers, timers, redisStore, inflight,
                  nextProducer, crashed >>

(* ---------- chat moderation, src/unnamed/part_004 --------------------- *)
\* enable ? room.muted.delete(targetId) : room.muted.add(targetId)
ToggleMutedFlipped(muted, t, enable) == IF enable THEN muted \cup {t} ELSE muted \ {t}

ToggleMuted(muted, t, enable) == IF enable THEN muted \ {t} ELSE muted \cup {t}

\* chat-perm {enabled}
ChatPerm(t, r, enable) ==
  Ev(IF enable THEN "chat-perm-enabled" ELSE "chat-perm-disabled", t, r, t, << >>)

ChatToggle(s, t, enable) ==
  /\ used.chat < lim.chat
  /\ used' = [ used EXCEPT !.chat = @ + 1 ]
  /\ ~crashed
  /\ variant = "redis"
  /\ IsOpen(s)
  /\ sock[t].st # "new"
  /\ LET roomId == sock[s].roomId IN
     IF roomId = NoRoomId
       THEN /\ out' = {}
            /\ UNCHANGED << rooms, crashed >>
       ELSE IF roomId \notin DOMAIN rooms
         THEN \* room is undefined: reading room.ownerId throws
              /\ crashed' = TRUE
              /\ out' = {}
              /\ UNCHANGED rooms
         ELSE IF ~IsOwner(rooms[roomId], s)
           THEN /\ out' = {}
                /\ UNCHANGED << rooms, crashed >>
           ELSE /\ rooms' = [ rooms EXCEPT ![roomId].muted = ToggleMuted(@, t, enable) ]
                /\ out' = { ChatPerm(t, roomId, enable) }
                /\ UNCHANGED crashed
  /\ UNCHANGED << lim, variant, engine, codeStore, remote, sock, peers, timers, timeouts, redisStore, redisQ,
                  inflight, nextProducer, ownerReplies, closedEmits >>

\* a mute test that lets every sender through
IsMutedNever(room, s) == FALSE

\* room.muted.has(socket.id)
IsMuted(room, s) == s \in room.muted

\* chat-send names the room itself; the sender need not be in it
ChatSend(s, r) ==
  /\ used.chat < lim.chat
  /\ used' = [ used EXCEPT !.chat = @ + 1 ]
  /\ ~crashed
  /\ variant = "redis"
  /\ IsOpen(s)
  /\ out' = IF r \notin DOMAIN rooms \/ IsMuted(rooms[r], s)
              THEN {}
              ELSE { EvRoom("chat-recv", RoomSockets(sock, r), r, s) }
  /\ UNCHANGED << lim, variant, engine, codeStore, remote, sock, peers, rooms, timers, timeouts, redisStore,
                  redisQ, inflight, nextProducer, crashed, ownerReplies, closedEmits >>

(* ---------- shared editor and pdf, named by the room id in the request - *)
\* codeStore.get(roomId) ?? ''
TextOf(r) == IF r \in DOMAIN codeStore THEN codeStore[r] ELSE ""

\* code-get: answers the text stored under the room id
CodeGet(s, r) ==
  /\ used.chat < lim.chat
  /\ used' = [ used EXCEPT !.chat = @ + 1 ]
  /\ ~crashed
  /\ IsOpen(s)
  /\ out' = { Ev("code", s, r, s, << TextOf(r) >>) }
  /\ UNCHANGED << lim, variant, engine, codeStore, remote, sock, peers, rooms, timers,
                  timeouts, redisStore, redisQ, inflight, nextProducer, crashed,
                  ownerReplies, closedEmits >>

\* code-set: stores the text and sends it to the socket.io room
CodeSet(s, r, text) ==
  /\ used.chat < lim.chat
  /\ used' = [ used EXCEPT !.chat = @ + 1 ]
  /\ ~crashed
  /\ IsOpen(s)
  /\ codeStore' = MapSet(codeStore, r, text)
  /\ out' = { [ EvRoom("code-update", RoomSockets(sock, r), r, s) EXCEPT !.list = << text >> ] }
  /\ UNCHANGED << lim, variant, engine, remote, sock, peers, rooms, timers, timeouts,
                  redisStore, redisQ, inflight, nextProducer, crashed, ownerReplies,
                  closedEmits >>

\* pdf-share (part_004 only): sends the link to the socket.io room
PdfShare(s, r) ==
  /\ used.chat < lim.chat
  /\ used' = [ used EXCEPT !.chat = @ + 1 ]
  /\ ~crashed
  /\ variant = "redis"
  /\ IsOpen(s)
  /\ out' = { EvRoom("pdf-recv", RoomSockets(sock, r), r, s) }
  /\ UNCHANGED << lim, variant, engine, codeStore, remote, sock, peers, rooms, timers,
                  timeouts, redisStore, redisQ, inflight, nextProducer, crashed,
                  ownerReplies, closedEmits >>

(* ---------- media engine ---------------------------------------------- *)
\* createTransport up to `await router.createWebRtcTransport(...)`
CreateTransportStart(s) ==
  /\ used.transport < lim.transport
  /\ used' = [ used EXCEPT !.transport = @ + 1 ]
  /\ ~crashed
  /\ IsOpen(s)
  /\ inflight[s] = NoCall
  /\ inflight' = [ inflight EXCEPT ![s] = [ call |-> "createTransport", tag |-> "none", tid |-> 0 ] ]
  /\ out' = {}
  /\ UNCHANGED << lim, variant, engine, codeStore, remote, sock, peers, rooms, timers, timeouts, redisStore, redisQ,
                  nextProducer, crashed, ownerReplies, closedEmits >>

\* a handle of the media engine: a transport of a connection's handler, or a
\* producer made on its transport `on`
Handle(kind, s, id, on) == [ kind |-> kind, owner |-> s, id |-> id, on |-> on, open |-> TRUE ]

\* the transports the engine has created for s, open or closed
TransportsOf(s) == { h \in engine : h.kind = "transport" /\ h.owner = s }

\* the engine returns the transport
CreateTransportDone(s) ==
  /\ UNCHANGED used
  /\ ~crashed
  /\ inflight[s].call = "createTransport"
  /\ inflight' = [ inflight EXCEPT ![s] = NoCall ]
  /\ engine' = engine \cup { Handle("transport", s, Cardinality(TransportsOf(s)) + 1, 0) }
  /\ IF s \notin DOMAIN peers
       THEN \* peers.get(socket.id) is undefined: .transports throws
            /\ crashed' = TRUE
            /\ out' = {}
            /\ UNCHANGED peers
       ELSE /\ peers' = [ peers EXCEPT ![s].transports = @ + 1 ]
            /\ out' = { Ev("transport", s, NoRoomId, s, << >>) }
            /\ UNCHANGED crashed
  /\ UNCHANGED << lim, variant, codeStore, remote, sock, rooms, timers, timeouts, redisStore, redisQ,
                  nextProducer, ownerReplies, closedEmits >>

\* t.on('dtlsstatechange', s => s === 'closed' && t.close()): the far end
\* closed transport k of s; closing a transport closes the producers made on it
DtlsClosed(s, k) ==
  /\ UNCHANGED used
  /\ ~crashed
  /\ \E h \in TransportsOf(s) : h.id = k /\ h.open
  /\ engine' = { IF h.owner = s /\ ( ( h.kind = "transport" /\ h.id = k )
                                     \/ ( h.kind = "producer" /\ h.on = k ) )
                   THEN [ h EXCEPT !.open = FALSE ] ELSE h : h \in engine }
  /\ out' = {}
  /\ UNCHANGED << lim, variant, codeStore, remote, sock, peers, rooms, timers, timeouts, redisStore,
                  redisQ, inflight, nextProducer, crashed, ownerReplies, closedEmits >>

\* produce up to `await t.produce(...)`; transports of a peer are numbered 1..n
ProduceStart(s, transportId, tag) ==
  /\ used.produce < lim.produce
  /\ used' = [ used EXCEPT !.produce = @ + 1 ]
  /\ ~crashed
  /\ IsOpen(s)
  /\ inflight[s] = NoCall
  /\ IF transportId > peers[s].transports
       THEN /\ out' = { Ev("error", s, NoRoomId, s, << >>) }
            /\ UNCHANGED inflight
       ELSE /\ inflight' = [ inflight EXCEPT ![s] = [ call |-> "produce", tag |-> tag,
                                                   tid |-> transportId ] ]
            /\ out' = {}
  /\ UNCHANGED << lim, variant, engine, codeStore, remote, sock, peers, rooms, timers, timeouts, redisStore, redisQ,
                  nextProducer, crashed, ownerReplies, closedEmits >>

\* {socketId, producer} as pushed to room.producers
ProducerRecord(s, id, tag) == [ socketId |-> s, id |-> id, mediaTag |-> tag ]

\* how many times x occurs in seq
Count(seq, x) == Cardinality({ i \in 1..Len(seq) : seq[i] = x })

\* a recipient list that also takes the connections still waiting
NewProducerToAll(room, s) == Without(room.participants \o room.waiting, s)

\* room.participants.filter(id => id !== socket.id): one emit per entry
NewProducerTo(room, s) == Without(room.participants, s)

\* the engine returns the producer, or rejects the call on a closed transport
ProduceDone(s) ==
  /\ UNCHANGED used
  /\ ~crashed
  /\ inflight[s].call = "produce"
  /\ inflight' = [ inflight EXCEPT ![s] = NoCall ]
  /\ LET roomId == sock[s].roomId
         tid == inflight[s].tid
         rec == ProducerRecord(s, nextProducer + 1, inflight[s].tag)
     IN
     IF \E h \in TransportsOf(s) : h.id = tid /\ ~h.open
       THEN \* await t.produce(...) rejects and nothing catches it
            /\ crashed' = TRUE
            /\ out' = {}
            /\ UNCHANGED << peers, rooms, engine, nextProducer >>
       ELSE
     /\ nextProducer' = nextProducer + 1
     /\ engine' = engine \cup { Handle("producer", s, nextProducer + 1, tid) }
     /\ IF s \notin DOMAIN peers
       THEN \* peers.get(socket.id) is undefined: .producers throws
            /\ crashed' = TRUE
            /\ out' = {}
            /\ UNCHANGED << peers, rooms >>
       ELSE /\ peers' = [ peers EXCEPT ![s].producers = @ + 1 ]
            /\ IF roomId = NoRoomId
                 THEN /\ out' = { Ev("produced", s, NoRoomId, s, << ProducerInfo(rec) >>) }
                      /\ UNCHANGED << rooms, crashed >>
                 ELSE IF roomId \notin DOMAIN rooms
                   THEN \* room is undefined: room.producers throws
                        /\ crashed' = TRUE
                        /\ out' = {}
                        /\ UNCHANGED rooms
                   ELSE /\ rooms' = [ rooms EXCEPT ![roomId].producers = Append(@, rec) ]
                        /\ LET to == NewProducerTo(rooms[roomId], s) IN
                           out' = { EvTimes("newProducer", id, roomId, s,
                                            << ProducerInfo(rec) >>, Count(to, id)) :
                                      id \in Range(to) }
                                  \cup { Ev("produced", s, roomId, s, << ProducerInfo(rec) >>) }
                        /\ UNCHANGED crashed
  /\ UNCHANGED << lim, variant, codeStore, remote, sock, timers, timeouts, redisStore, redisQ,
                  ownerReplies, closedEmits >>

\* the room orchestration handlers
Admission ==
  \/ \E s \in Sockets : Connect(s)
  \/ \E s \in Sockets, r \in RoomIds : JoinRoomPlain(s, r)
  \/ \E s \in Sockets, r \in RoomIds : JoinRoomStart(s, r)
  \/ JoinRoomExists
  \/ JoinRoomSet
  \/ RedisDel
  \/ \E s \in Sockets, t \in Sockets : ApproveJoin(s, t)
  \/ \E s \in Sockets : Disconnect(s)
  \/ \E h \in DOMAIN timeouts : TimerFire(h)

\* the mediasoup handlers
Media ==
  \/ \E s \in Sockets : CreateTransportStart(s)
  \/ \E s \in Sockets : CreateTransportDone(s)
  \/ \E s \in Sockets, tid \in 1..(MaxTransports + 1), tag \in MediaTags :
        ProduceStart(s, tid, tag)
  \/ \E s \in Sockets : ProduceDone(s)

Init == InitWith(LimAdmission)

Next ==
  \/ Admission
  \/ \E s \in Sockets, t \in Sockets : DenyJoin(s, t)

Spec == Init /\ [][Next]_vars

\* the runtime runs every timeout callback that stays due, and the store
\* answers every command; clients are free to send nothing
Fairness ==
  /\ \A h \in 1..NumSockets : WF_vars(TimerFire(h))
  /\ WF_vars(JoinRoomExists)
  /\ WF_vars(JoinRoomSet)
  /\ WF_vars(RedisDel)

SpecLive == Init /\ [][Next]_vars /\ Fairness

InitWide == InitWith(LimWide)

SpecWide == InitWide /\ [][Next]_vars

InitMedia == InitWith(LimMedia)

NextMedia ==
  \/ Next
  \/ Media

SpecMedia == InitMedia /\ [][NextMedia]_vars

\* the chat handlers
Chat ==
  \/ \E s \in Sockets, t \in Sockets, enable \in BOOLEAN : ChatToggle(s, t, enable)
  \/ \E s \in Sockets, r \in RoomIds : ChatSend(s, r)

InitChat == InitWith(LimChat)

NextChat ==
  \/ Next
  \/ Chat

SpecChat == InitChat /\ [][NextChat]_vars

\* chat, shared editor and pdf
Share ==
  \/ \E s \in Sockets, r \in RoomIds : CodeGet(s, r)
  \/ \E s \in Sockets, r \in RoomIds, text \in Texts : CodeSet(s, r, text)
  \/ \E s \in Sockets, r \in RoomIds : PdfShare(s, r)

NextShare ==
  \/ NextChat
  \/ Share

SpecShare == InitChat /\ [][NextShare]_vars

\* part_004 with clients that name rooms after connection ids
InitAlias == InitWith(LimAlias) /\ variant = "redis"

NextAlias ==
  \/ \E s \in Sockets : Connect(s)
  \/ \E s \in Sockets, r \in RoomIds : JoinRoomStart(s, r)
  \/ JoinRoomExists
  \/ JoinRoomSet
  \/ RedisDel
  \/ \E s \in Sockets, t \in Sockets : ApproveJoin(s, t)
  \/ \E s \in Sockets, t \in Sockets : DenyJoin(s, t)
  \/ \E s \in Sockets : Disconnect(s)
  \/ \E h \in DOMAIN timeouts : TimerFire(h)

SpecAlias == InitAlias /\ [][NextAlias]_vars

InitStage == InitWith(LimStage)

SpecStage == InitStage /\ [][NextMedia]_vars

\* media with transports that the far end may close
NextEngine ==
  \/ NextMedia
  \/ \E s \in Sockets, k \in 1..MaxTransports : DtlsClosed(s, k)

SpecEngine == InitStage /\ [][NextEngine]_vars

\* the join-room handler and the grace timer of the other instance
Remote ==
  \/ \E r \in RoomIds : RemoteJoinStart(r)
  \/ RemoteJoinExists
  \/ RemoteJoinSet
  \/ \E r \in RoomIds : RemoteTimerFire(r)
  \/ RemoteDel

InitCluster == InitWith(LimCluster)

NextCluster ==
  \/ Next
  \/ Remote

SpecCluster == InitCluster /\ [][NextCluster]_vars

(* ====================== properties ==================================== *)

\* C1: for a room id that is free, exactly the first join-room requester is
\* answered isOwner:true and owns the room; every other requester while the
\* room is live is answered waitForApproval.
C1_FirstCallerOwns ==
  \A r \in RoomIds :
    /\ Cardinality(ownerReplies[r]) <= 1
    /\ r \in DOMAIN rooms => ownerReplies[r] = { rooms[r].ownerId }

\* C2: a grace timer that saw a join-room for its room handled while it was
\* pending never fires (the room stays, no room-closed for that grace period).
C2_RejoinKeepsRoom ==
  \A h \in DOMAIN timeouts : timeouts[h].handled => ~timeouts[h].fired

\* C3: when a grace timer fires and no join-room for its room arrived while
\* it was pending, the room is gone from the registry and exactly one
\* room-closed has been emitted for the room.
C3_ExpiryClosesOnce ==
  [][ \A h \in DOMAIN timeouts :
        ( Pending(timeouts[h]) /\ ~timeouts[h].seen /\ timeouts'[h].fired )
        => ( /\ timeouts[h].roomId \notin DOMAIN rooms'
             /\ closedEmits'[timeouts[h].roomId] = 1 ) ]_vars

C5_OnlyOwnerApproves ==
  [][ \A s \in Sockets, t \in Sockets :
        ( /\ ApproveJoin(s, t)
          /\ ( rooms' # rooms \/ \E e \in out' : e.ev = "join-approved" ) )
        => ( /\ sock[s].roomId \in DOMAIN rooms
             /\ rooms[sock[s].roomId].ownerId = s ) ]_vars

\* C6: in every room, waiting and participants are disjoint.
C6_WaitingDisjoint ==
  \A r \in DOMAIN rooms :
    Range(rooms[r].waiting) \cap Range(rooms[r].participants) = {}

\* C7: a connection id is a participant of at most one room.
C7_OneRoomPerPeer ==
  \A s \in Sockets :
    Cardinality({ r \in DOMAIN rooms : s \in Range(rooms[r].participants) }) <= 1

\* C8: the owner of every room in the registry is one of its participants.
C8_OwnerInParticipants ==
  \A r \in DOMAIN rooms : rooms[r].ownerId \in Range(rooms[r].participants)

\* C8 witness: a room in its grace period from which a non-owner
\* participant has already disconnected.
C8_Witness ==
  \E r \in DOMAIN rooms, s \in Sockets :
    /\ sock[rooms[r].ownerId].st = "closed"
    /\ \E h \in DOMAIN timeouts : timeouts[h].roomId = r /\ Pending(timeouts[h])
    /\ s # rooms[r].ownerId
    /\ sock[s].st = "closed"
    /\ sock[s].roomId = r
    /\ s \notin Range(rooms[r].participants)

\* C9: every producer record of a room belongs to one of its participants.
C9_ProducersOwned ==
  \A r \in DOMAIN rooms :
    \A i \in 1..Len(rooms[r].producers) :
      rooms[r].producers[i].socketId \in Range(rooms[r].participants)

\* C10: a grace timer is pending for r exactly when r is in the registry and
\* its owner's connection is closed.
C10_GraceIffOwnerGone ==
  \A r \in RoomIds :
    ( \E h \in DOMAIN timeouts : timeouts[h].roomId = r /\ Pending(timeouts[h]) )
    <=> ( r \in DOMAIN rooms /\ sock[rooms[r].ownerId].st = "closed" )

\* C11: with two instances on one reservation store, no room id is live in
\* the registries of both at the same time.
C11_UniqueAcrossInstances ==
  \A r \in RoomIds : ~( r \in DOMAIN rooms /\ r \in remote.rooms )

\* C12: a join-room whose uniqueness check finds the room id not tracked by
\* this instance and its reservation held is answered exists:true and nothing
\* else happens: no room, no waiting entry, no join-request, and the
\* reservation and the commands sent to the store are as before.
C12_NameTakenRejected ==
  [][ ( /\ JoinRoomExists
        /\ redisQ[1].key \notin DOMAIN rooms
        /\ redisQ[1].key \in DOMAIN redisStore )
      => ( /\ out' = { Ev("exists", redisQ[1].by, redisQ[1].key, redisQ[1].by, << >>) }
           /\ rooms' = rooms
           /\ redisStore' = redisStore
           /\ redisQ' = Tail(redisQ) ) ]_vars

\* C12 witness: a requester has just been answered exists:true for a room id
\* that is reserved but not in the registry.
C12_Witness ==
  \E e \in out :
    /\ e.ev = "exists"
    /\ e.room \notin DOMAIN rooms
    /\ e.room \in DOMAIN redisStore

\* C13: newProducer, join-approved (with its existing-producer list) and the
\* creator's reply go only to participants of the room, and a connection
\* becomes a participant only by an approve-join naming it or by creating the
\* room: a connection that is only waiting receives none of them.
C13_NoMediaBeforeApproval ==
  [][ /\ \A e \in out' :
           e.ev \in { "newProducer", "join-approved", "isOwner" }
           => ( /\ e.room \in DOMAIN rooms'
                /\ e.to \in Range(rooms'[e.room].participants) )
      /\ \A r \in DOMAIN rooms', t \in Sockets :
           ( /\ t \in Range(rooms'[r].participants)
             /\ ~( r \in DOMAIN rooms /\ t \in Range(rooms[r].participants) ) )
           => ( \/ \E s \in Sockets : ApproveJoin(s, t)
                \/ rooms'[r] = NewRoom(t) ) ]_vars

\* C13 witness: a producer has just been registered in a room while an open
\* connection is in its waiting list and not among its participants.
C13_Witness ==
  \E e \in out, t \in Sockets :
    /\ e.ev = "produced"
    /\ e.room \in DOMAIN rooms
    /\ IsOpen(t)
    /\ t \in Range(rooms[e.room].waiting)
    /\ t \notin Range(rooms[e.room].participants)

\* C14: when a participant of a room produces, every other participant of the
\* room is sent exactly one newProducer with the new producer's id and
\* mediaTag, and the producer itself is sent none.
C14_OneNewProducerEach ==
  [][ \A s \in Sockets :
        ( /\ ProduceDone(s)
          /\ sock[s].roomId \in DOMAIN rooms
          /\ s \in Range(rooms[sock[s].roomId].participants)
          /\ ~crashed' )
        => ( /\ \A id \in Range(rooms[sock[s].roomId].participants) \ {s} :
                  EvTimes("newProducer", id, sock[s].roomId, s,
                          << [ producerId |-> nextProducer', socketId |-> s,
                               mediaTag |-> inflight[s].tag ] >>, 1)
                    \in out'
             /\ \A e \in out' : e.ev = "newProducer" => e.to # s ) ]_vars

C17_ApproveNeedsWaiting ==
  [][ \A s \in Sockets, t \in Sockets :
        ( /\ ApproveJoin(s, t)
          /\ sock[s].roomId \in DOMAIN rooms
          /\ t \notin Range(rooms[sock[s].roomId].waiting) )
        => ( /\ rooms' = rooms
             /\ \A e \in out' : e.ev # "join-approved" ) ]_vars

\* C18: after the owner's approve-join the target is not in waiting and is in
\* participants exactly once (approving again adds no second entry).
C18_ApproveIdempotent ==
  [][ \A s \in Sockets, t \in Sockets :
        ( /\ ApproveJoin(s, t)
          /\ sock[s].roomId \in DOMAIN rooms
          /\ rooms[sock[s].roomId].ownerId = s )
        => ( /\ t \notin Range(rooms'[sock[s].roomId].waiting)
             /\ Count(rooms'[sock[s].roomId].participants, t) = 1 ) ]_vars

\* C20: after a deny-join by the owner of a room the target is not in the
\* room's waiting list and join-denied has been sent to it.
C20_DenyRemovesWaiting ==
  [][ \A s \in Sockets, t \in Sockets :
        ( /\ DenyJoin(s, t)
          /\ sock[s].roomId \in DOMAIN rooms
          /\ rooms[sock[s].roomId].ownerId = s )
        => ( /\ t \notin Range(rooms'[sock[s].roomId].waiting)
             /\ \E e \in out' : e.ev = "join-denied" /\ e.to = t ) ]_vars

\* C19: the list carried by join-approved is the room's producer records
\* whose owner is not the target, all of them and no other, in order, each as
\* producer id, owner id and mediaTag.
C19_ExistingProducersExact ==
  [][ \A e \in out' :
        e.ev = "join-approved"
        => /\ e.room \in DOMAIN rooms'
           /\ LET prods == rooms'[e.room].producers
                  keep == { i \in 1..Len(prods) : prods[i].socketId # e.to }
              IN
              /\ Len(e.list) = Cardinality(keep)
              /\ \A i \in 1..Len(e.list) : e.list[i].socketId # e.to
              /\ \A i \in keep :
                   \E j \in 1..Len(e.list) :
                     /\ e.list[j].producerId = prods[i].id
                     /\ e.list[j].socketId = prods[i].socketId
                     /\ e.list[j].mediaTag = prods[i].mediaTag
                     /\ j = Cardinality({ k \in keep : k <= i }) ]_vars

\* C19 witness: a target has just been approved into a room that has
\* producers and was sent a non-empty list.
C19_Witness ==
  \E e \in out :
    /\ e.ev = "join-approved"
    /\ e.list # << >>
    /\ e.room \in DOMAIN rooms
    /\ e.to \in Range(rooms[e.room].participants)

\* C21: no connection id occurs twice in the waiting list of a room.
C21_WaitingNoDuplicate ==
  \A r \in DOMAIN rooms :
    \A s \in Range(rooms[r].waiting) : Count(rooms[r].waiting, s) = 1

\* C22: when a connection that does not own the room it is associated with
\* closes, afterwards no room has it in participants or in waiting, and no
\* room has a producer record owned by it.
C22_LeaveRemovesAll ==
  [][ \A s \in Sockets :
        ( /\ Disconnect(s)
          /\ \A r \in DOMAIN rooms : rooms[r].ownerId # s )
        => \A r \in DOMAIN rooms' :
             /\ s \notin Range(rooms'[r].participants)
             /\ s \notin Range(rooms'[r].waiting)
             /\ \A i \in 1..Len(rooms'[r].producers) :
                  rooms'[r].producers[i].socketId # s ]_vars

\* C23: a room-wide event for room r is delivered to exactly the connected
\* participants of r at the time of its emission.
C23_RoomEventsToParticipants ==
  [][ \A e \in out' :
        e.ev \in { "participant-left", "room-closed", "chat-recv", "code-update" }
        => LET room == IF e.room \in DOMAIN rooms' THEN rooms'[e.room]
                       ELSE IF e.room \in DOMAIN rooms THEN rooms[e.room]
                       ELSE NewRoom(0)
               now == IF e.room \in DOMAIN rooms' \/ e.room \in DOMAIN rooms
                        THEN Range(room.participants) ELSE {}
           IN e.rcpt = { s \in now : sock'[s].st = "open" } ]_vars

\* C24: the disconnect of a connection that owns no room leaves every grace
\* timer as it was (none armed, cancelled or rescheduled), leaves no work
\* behind (no store command, no pending call), and the connection is out of
\* the participants and producers of its room when the step ends
C24_GuestLeaveIsSynchronous ==
  [][ \A s \in Sockets :
        ( Disconnect(s) /\ \A r \in DOMAIN rooms : rooms[r].ownerId # s )
        => /\ timers' = timers
           /\ timeouts' = timeouts
           /\ redisQ' = redisQ
           /\ inflight' = inflight
           /\ LET roomId == sock[s].roomId IN
              roomId \in DOMAIN rooms
              => /\ roomId \in DOMAIN rooms'
                 /\ s \notin Range(rooms'[roomId].participants)
                 /\ \A i \in 1..Len(rooms'[roomId].producers) :
                       rooms'[roomId].producers[i].socketId # s ]_vars

\* C24 witness: an admitted guest has left its room, which is still there
\* with its owner, and no grace timer was ever armed
C24_Witness ==
  \E e \in out :
    /\ e.ev = "participant-left"
    /\ e.room \in DOMAIN rooms
    /\ sock[e.peer].st = "closed"
    /\ e.peer \notin Range(rooms[e.room].participants)
    /\ e.rcpt = { rooms[e.room].ownerId }
    /\ timeouts = << >>
    /\ timers = EmptyMap

\* C25: once a join-room naming r has been answered, no grace timer for r is
\* pending: every timeout that was pending when the request was answered has
\* been cancelled (or has run) by the end of that step.
C25_JoinCancelsGrace ==
  \A h \in DOMAIN timeouts : timeouts[h].handled => ~Pending(timeouts[h])

\* C26: the disconnect of a room's owner arms exactly one grace timer and
\* leaves the registry as it is; while that timer is pending the room stays in
\* the registry with the same owner and with every participant and producer
\* record of a connection that is still open, and a join-room for its id is
\* answered waitForApproval with the requester in waiting, never isOwner.
C26_GraceKeepsRoom ==
  [][ /\ \A s \in Sockets :
           ( /\ Disconnect(s)
             /\ sock[s].roomId \in DOMAIN rooms
             /\ rooms[sock[s].roomId].ownerId = s )
           => /\ rooms' = rooms
              /\ Len(timeouts') = Len(timeouts) + 1
              /\ SubSeq(timeouts', 1, Len(timeouts)) = timeouts
              /\ timeouts'[Len(timeouts')].roomId = sock[s].roomId
              /\ Pending(timeouts'[Len(timeouts')])
      /\ \A h \in DOMAIN timeouts :
           Pending(timeouts[h])
           => LET r == timeouts[h].roomId IN
              /\ r \in DOMAIN rooms
              /\ ~timeouts'[h].fired
                 => /\ r \in DOMAIN rooms'
                    /\ rooms'[r].ownerId = rooms[r].ownerId
                    /\ \A p \in Range(rooms[r].participants) :
                          sock'[p].st = "open" => p \in Range(rooms'[r].participants)
                    /\ \A i \in 1..Len(rooms[r].producers) :
                          sock'[rooms[r].producers[i].socketId].st = "open"
                          => rooms[r].producers[i] \in Range(rooms'[r].producers)
              /\ \A e \in out' :
                   e.room = r
                   => /\ e.ev # "isOwner"
                      /\ e.ev = "waitForApproval"
                         => r \in DOMAIN rooms' /\ e.to \in Range(rooms'[r].waiting) ]_vars

C28_NoOpenHandleWithoutPeer ==
  \A h \in engine : h.open => h.owner \in DOMAIN peers

\* C29: when a media-engine call returns to the handler of a connection that
\* closed meanwhile, the continuation raises nothing and drops the result: no
\* peer entry and no room changes, and no newProducer is emitted.
C29_LateResultDiscarded ==
  [][ \A s \in Sockets :
        ( sock[s].st = "closed" /\ ( CreateTransportDone(s) \/ ProduceDone(s) ) )
        => /\ ~crashed'
           /\ peers' = peers
           /\ rooms' = rooms
           /\ \A e \in out' : e.ev # "newProducer" ]_vars

\* C30: no request handler ever lets an exception escape: every request ends
\* in a reply or does nothing, also an approve-join, produce or chat-toggle of
\* a connection whose room the grace timer has deleted.
C30_NoUnhandledException == ~crashed

\* C31: a produce request of a connection that is in no room's participants
\* ends with an error reply to the requester: no producer id is returned, no
\* room changes and no newProducer is emitted.
C31_ProduceNeedsRoom ==
  [][ \A s \in Sockets :
        ( /\ ProduceDone(s)
          /\ \A r \in DOMAIN rooms : s \notin Range(rooms[r].participants) )
        => /\ \E e \in out' : e.ev = "error" /\ e.to = s
           /\ \A e \in out' : e.ev \notin { "produced", "newProducer" }
           /\ rooms' = rooms ]_vars

\* C32: an admission event reaches one connection at most: a join-request the
\* owner of the room that was asked for, a join-approved and a join-denied the
\* connection the request names.
C32_AdmissionEventsTargeted ==
  [][ \A e \in out' :
        e.ev \in { "join-request", "join-approved", "join-denied" }
        => /\ e.rcpt \subseteq { e.to }
           /\ e.ev = "join-request"
              => e.room \in DOMAIN rooms /\ e.to = rooms[e.room].ownerId ]_vars

\* C33: a room whose owner's connection has closed does not stay in the
\* registry forever: eventually the room is deleted or its ownerId is an open
\* connection again (or the process has died), also when a join-room for the
\* room arrives during the grace period.
C33_OwnerlessRoomGoes ==
  \A r \in 1..NumRooms :
    ( r \in DOMAIN rooms /\ sock[rooms[r].ownerId].st = "closed" )
    ~> ( \/ r \notin DOMAIN rooms
         \/ sock[rooms[r].ownerId].st = "open"
         \/ crashed )

\* C34: while a room stays in the registry no step changes its ownerId or
\* resets its lists: a participant or producer record goes only when its
\* connection closes, and a waiting id goes only by becoming a participant.
C34_RoomNeverReplaced ==
  [][ \A r \in DOMAIN rooms \cap DOMAIN rooms' :
        /\ rooms'[r].ownerId = rooms[r].ownerId
        /\ \A p \in Range(rooms[r].participants) :
              sock'[p].st = "open" => p \in Range(rooms'[r].participants)
        /\ \A p \in Range(rooms[r].producers) :
              sock'[p.socketId].st = "open" => p \in Range(rooms'[r].producers)
        /\ \A w \in Range(rooms[r].waiting) :
              w \in Range(rooms'[r].waiting) \/ w \in Range(rooms'[r].participants) ]_vars

\* C35: the membership lists name open connections only: every id in waiting
\* is an open connection, and so is every id in participants except the owner
\* (whose room outlives its connection during the grace period).
C35_MembersAreOpen ==
  \A r \in DOMAIN rooms :
    /\ \A w \in Range(rooms[r].waiting) : sock[w].st = "open"
    /\ \A p \in Range(rooms[r].participants) :
          p # rooms[r].ownerId => sock[p].st = "open"

\* C36: socket.roomId agrees with the registry: an open connection whose
\* roomId names a room in the registry is in that room's participants, and an
\* open connection in a room's participants has that room as its roomId.
C36_RoomIdMatchesRegistry ==
  \A c \in Sockets :
    sock[c].st = "open"
    => \A r \in DOMAIN rooms :
         sock[c].roomId = r <=> c \in Range(rooms[r].participants)

\* C37: a chat-send, code-set or pdf-share naming room r leads to a chat-recv,
\* code-update or pdf-recv in r, or to a change of r's text, only when the
\* sender is in r's participants.
C37_OnlyParticipantsShare ==
  [][ /\ \A e \in out' :
           e.ev \in { "chat-recv", "code-update", "pdf-recv" }
           => e.room \in DOMAIN rooms /\ e.peer \in Range(rooms[e.room].participants)
      /\ \A s \in Sockets, r \in RoomIds, text \in Texts :
           ( CodeSet(s, r, text) /\ TextOf(r)' # TextOf(r) )
           => r \in DOMAIN rooms /\ s \in Range(rooms[r].participants) ]_vars

\* C38: with the reservation store (part_004), a room id held by an instance
\* has its reservation key, and a room id that no instance holds and for which
\* no join-room or timer callback has a store command outstanding has none.
C38_StoreAgreesWithRegistries ==
  variant = "redis"
  => \A r \in RoomIds :
       LET held == r \in DOMAIN rooms \/ r \in remote.rooms
           busy == \/ \E i \in 1..Len(redisQ) : redisQ[i].key = r
                   \/ \E i \in 1..Len(remote.q) : remote.q[i].key = r
       IN /\ held => r \in DOMAIN redisStore
          /\ ( ~held /\ ~busy ) => r \notin DOMAIN redisStore
====
